---- MODULE Spec2Model ----
(***************************************************************************)
(* Model of JovoModelDialogflow: the two conversions between the canonical *)
(* Jovo model and the Dialogflow native file set.                          *)
(*                                                                         *)
(*   toJovoModel(inputData, locale)   native files  -> canonical model     *)
(*   fromJovoModel(model, locale)     canonical model -> native files      *)
(*                                                                         *)
(* Data representation.                                                    *)
(*   - A JS string is a sequence of one-character strings, so that the     *)
(*     substring operations of the code (startsWith, substr, indexOf,      *)
(*     the {..} regular expression, the sanitising replace) are computed   *)
(*     and not assumed.                                                    *)
(*   - A JS object used as a mapping is an ordered map: a sequence of      *)
(*     [key, data] records with distinct keys, in insertion order, since   *)
(*     Object.entries iterates in that order.                              *)
(*   - A JS object used as a record is a TLA+ record; an optional field    *)
(*     that is absent is absent from the record's DOMAIN.                  *)
(*   - A thrown exception ends the call: the result carries raised = TRUE  *)
(*     and the error message, and no value is returned.                    *)
(***************************************************************************)
EXTENDS Integers, Sequences, FiniteSets, TLC

VARIABLES phase, locale, model, original, returnFiles, exportError,
          inputData, jovoModel, importRaised

vars == <<phase, locale, model, original, returnFiles, exportError,
          inputData, jovoModel, importRaised>>

-----------------------------------------------------------------------------
(* Strings *)

Has(r, f) == f \in DOMAIN r

StartsWith(s, p) == Len(s) >= Len(p) /\ SubSeq(s, 1, Len(p)) = p

\* s.substr(from0) with a 0-based start, as in JS
SubstrFrom(s, from0) == SubSeq(s, from0 + 1, Len(s))

\* s.substr(from0, n)
Substr(s, from0, n) == SubSeq(s, from0 + 1, from0 + n)

\* positions (1-based) at which p occurs in s
Occurrences(s, p) ==
    {i \in 1..(Len(s) - Len(p) + 1) : SubSeq(s, i, i + Len(p) - 1) = p}

\* s.indexOf(p): 0-based index of the first occurrence, -1 when there is none
IndexOf(s, p) ==
    IF Occurrences(s, p) = {} THEN -1
    ELSE (CHOOSE i \in Occurrences(s, p) : \A j \in Occurrences(s, p) : i <= j) - 1

Digits == {"0", "1", "2", "3", "4", "5", "6", "7", "8", "9"}
UpperCase == {"A", "B", "C", "D", "E", "F", "G", "H", "I", "J", "K", "L", "M",
              "N", "O", "P", "Q", "R", "S", "T", "U", "V", "W", "X", "Y", "Z"}
LowerCase == {"a", "b", "c", "d", "e", "f", "g", "h", "i", "j", "k", "l", "m",
              "n", "o", "p", "q", "r", "s", "t", "u", "v", "w", "x", "y", "z"}
\* the range U+00C0 .. U+00FF of the character class
Latin1 == {"À", "Á", "Â", "Ã", "Ä", "Å", "Æ", "Ç", "È", "É", "Ê", "Ë", "Ì", "Í", "Î", "Ï",
           "Ð", "Ñ", "Ò", "Ó", "Ô", "Õ", "Ö", "×", "Ø", "Ù", "Ú", "Û", "Ü", "Ý", "Þ", "ß",
           "à", "á", "â", "ã", "ä", "å", "æ", "ç", "è", "é", "ê", "ë", "ì", "í", "î", "ï",
           "ð", "ñ", "ò", "ó", "ô", "õ", "ö", "÷", "ø", "ù", "ú", "û", "ü", "ý", "þ", "ÿ"}

\* a character the class [^0-9A-Za-zÀ-ÿ-_' ] does NOT match, i.e. one that is kept
KeptChar(c) == c \in Digits \cup UpperCase \cup LowerCase \cup Latin1 \cup {"-", "_", "'", " "}

\* s.replace(/[^0-9A-Za-zÀ-ÿ-_' ]/gi, '')
Sanitize(s) == SelectSeq(s, KeptChar)

BUILTIN_PREFIX == <<"@", "s", "y", "s", ".">>
DotJson == <<".", "j", "s", "o", "n">>
UsersaysInfix == <<"_", "u", "s", "e", "r", "s", "a", "y", "s", "_">>
EntriesInfix == <<"_", "e", "n", "t", "r", "i", "e", "s", "_">>
usersays == <<"u", "s", "e", "r", "s", "a", "y", "s">>
entries == <<"e", "n", "t", "r", "i", "e", "s">>
intentsDir == <<"i", "n", "t", "e", "n", "t", "s">>
entitiesDir == <<"e", "n", "t", "i", "t", "i", "e", "s">>
WELCOME == <<"W", "E", "L", "C", "O", "M", "E">>

-----------------------------------------------------------------------------
(* Ordered maps: JS objects used as mappings *)

Keys(m) == {m[i].key : i \in 1..Len(m)}

HasKey(m, k) == k \in Keys(m)

Lookup(m, k) == m[CHOOSE i \in 1..Len(m) : m[i].key = k].data

\* m[k] = v : replaces in place when the key exists, appends otherwise
Put(m, k, v) ==
    IF HasKey(m, k)
    THEN [i \in 1..Len(m) |-> IF m[i].key = k THEN [key |-> k, data |-> v] ELSE m[i]]
    ELSE Append(m, [key |-> k, data |-> v])

\* the mapping an ordered map denotes (key order does not matter to equality)
AsFunction(m) == [k \in Keys(m) |-> Lookup(m, k)]

\* _merge(dst, src) for objects whose src fields are scalars or are absent in dst
Merge(dst, src) == src @@ dst

\* opaque fresh identifier: neither conversion ever reads it
uuidv4 == "uuid"

-----------------------------------------------------------------------------
(* Default tables *)

DEFAULT_RESPONSE ==
    [resetContexts |-> FALSE, affectedContexts |-> <<>>, parameters |-> <<>>,
     defaultResponsePlatforms |-> <<>>, speech |-> <<>>]

DEFAULT_PRIORITY == 500000

DEFAULT_INTENT ==
    [auto |-> TRUE, contexts |-> <<>>, responses |-> <<DEFAULT_RESPONSE>>,
     priority |-> DEFAULT_PRIORITY, webhookUsed |-> FALSE,
     webhookForSlotFilling |-> FALSE, fallbackIntent |-> FALSE, events |-> <<>>]

DEFAULT_ENTITY ==
    [isOverridable |-> TRUE, isEnum |-> FALSE, automatedExpansion |-> FALSE,
     isRegexp |-> FALSE, allowFuzzyExtraction |-> FALSE]

\* the entity template the exporter spreads into every entity record
DIALOGFLOW_LM_ENTITY == DEFAULT_ENTITY

-----------------------------------------------------------------------------
(* JovoModelHelper: the version-independent accessor layer *)

getIntents(m) == m.intents

getIntentByName(m, intentKey) == Lookup(m.intents, intentKey)

hasEntities(m, intentKey) == Has(getIntentByName(m, intentKey), "entities")

getEntities(m, intentKey) == getIntentByName(m, intentKey).entities

hasEntityTypes(m) == Has(m, "entityTypes")

hasEntityTypeByName(m, name) == hasEntityTypes(m) /\ HasKey(m.entityTypes, name)

getEntityTypeByName(m, name) == Lookup(m.entityTypes, name)

isJovoModelV3(m) == m.version = "3.0"

-----------------------------------------------------------------------------
(* fromJovoModel: canonical model -> native files *)

RemoveField(r, f) == [x \in DOMAIN r \ {f} |-> r[x]]

ErrorMessage(prefix, quoted, suffix) ==
    [prefix |-> prefix, quoted |-> quoted, suffix |-> suffix]

NoError == ErrorMessage("", <<>>, "")

\* throw new Error(...): the call is over, nothing is returned
Throw(st, e) == [st EXCEPT !.raised = TRUE, !.error = e]

File(path, content) == [path |-> path, content |-> content]

\* !entityData.type : the field is absent or is the empty string
TypeMissing(entityData) ==
    \/ ~Has(entityData, "type")
    \/ Has(entityData.type, "string") /\ entityData.type.string = <<>>

\* typeof entityData.type === 'object'
TypeIsObject(entityData) == ~Has(entityData.type, "string")

\* entityData.type.dialogflow is truthy
TypeHasDialogflow(entityData) ==
    Has(entityData.type, "dialogflow") /\ entityData.type.dialogflow # <<>>

\* the dataType the parameter starts with
ResolvedDataType(entityData) ==
    IF TypeIsObject(entityData) THEN entityData.type.dialogflow
    ELSE entityData.type.string

\* mutant: only the bare prefix counts as built in
IsBuiltinTypeExact(dataType) == dataType = BUILTIN_PREFIX

IsBuiltinType(dataType) == StartsWith(dataType, BUILTIN_PREFIX)

\* the error thrown when the type name is not a key of the entity types
UndeclaredTypeError(m, name) ==
    IF isJovoModelV3(m)
    THEN ErrorMessage("Input type", name, "must be defined in inputTypes")
    ELSE ErrorMessage("Entity type", name, "must be defined in entityTypes")

\* the error thrown when the model has no entity types object at all
NoEntityTypesError(m, dataType) ==
    ErrorMessage("Input type", dataType, "must be defined in entityTypes")

\* the native entity record of a matched entity type
DfEntityObj(name, entityType) ==
    LET base == [id |-> uuidv4, name |-> name] @@ DIALOGFLOW_LM_ENTITY
    IN  IF Has(entityType, "dialogflow")
        THEN IF Has(entityType.dialogflow, "string")
             THEN IF entityType.dialogflow.string # <<>>
                  THEN [base EXCEPT !.name = entityType.dialogflow.string]
                  ELSE base
             ELSE Merge(base, entityType.dialogflow)
        ELSE base

\* synonyms are handled only for entities that are neither enum nor regexp
KeepsSynonyms(dfEntityObj) == ~dfEntityObj.isEnum /\ ~dfEntityObj.isRegexp

SanitizeAll(synonyms) == [i \in 1..Len(synonyms) |-> Sanitize(synonyms[i])]

\* the entry emitted for one value of the entity type
EntryOf(value, dfEntityObj) ==
    IF Has(value, "string") THEN [value |-> value.string]
    ELSE IF KeepsSynonyms(dfEntityObj)
         THEN [value |-> value.value,
               synonyms |-> <<Sanitize(value.value)>> \o
                            (IF Has(value, "synonyms") THEN SanitizeAll(value.synonyms)
                             ELSE <<>>)]
         ELSE [value |-> value.value]

\* what the loop leaves in the model's own value object: value.synonyms[i] = ...
ValueAfterExport(value, dfEntityObj) ==
    IF ~Has(value, "string") /\ KeepsSynonyms(dfEntityObj) /\ Has(value, "synonyms")
    THEN [value EXCEPT !.synonyms = SanitizeAll(value.synonyms)]
    ELSE value

HasValues(entityType) == Has(entityType, "values") /\ Len(entityType.values) > 0

EntityFilePath(name) == <<entitiesDir, name \o DotJson>>

EntriesFilePath(name, loc) == <<entitiesDir, name \o EntriesInfix \o loc \o DotJson>>

IntentFilePath(name) == <<intentsDir, name \o DotJson>>

UsersaysFilePath(name, loc) == <<intentsDir, name \o UsersaysInfix \o loc \o DotJson>>

\* the files pushed for a matched custom entity type
EntityTypeFiles(name, entityType, loc) ==
    LET dfEntityObj == DfEntityObj(name, entityType)
    IN  <<File(EntityFilePath(name), dfEntityObj)>> \o
        (IF HasValues(entityType)
         THEN <<File(EntriesFilePath(name, loc),
                     [i \in 1..Len(entityType.values) |->
                         EntryOf(entityType.values[i], dfEntityObj)])>>
         ELSE <<>>)

\* the entity type as the caller finds it after its values were walked
EntityTypeAfterExport(name, entityType) ==
    IF HasValues(entityType)
    THEN [entityType EXCEPT !.values =
            [i \in 1..Len(entityType.values) |->
                ValueAfterExport(entityType.values[i], DfEntityObj(name, entityType))]]
    ELSE entityType

\* the parameter record of an entity, vendor overrides merged last
ParameterObj(entityKey, entityData, dataType) ==
    LET base == [isList |-> FALSE, name |-> entityKey,
                 value |-> <<"$">> \o entityKey, dataType |-> dataType]
    IN  IF Has(entityData, "dialogflow") THEN Merge(base, entityData.dialogflow)
        ELSE base

PushParameter(st, p) == [st EXCEPT !.parameters = Append(@, p)]

\* mutant: an undeclared type is passed over instead of raising
CustomEntityStepLenient(st, entityKey, entityData, name, loc) ==
    IF ~hasEntityTypeByName(st.model, name)
    THEN PushParameter(st, ParameterObj(entityKey, entityData, <<"@">> \o name))
    ELSE LET entityType == getEntityTypeByName(st.model, name)
             pushed == [st EXCEPT
                 !.files = @ \o EntityTypeFiles(name, entityType, loc),
                 !.model.entityTypes =
                     Put(@, name, EntityTypeAfterExport(name, entityType))]
         IN  PushParameter(pushed, ParameterObj(entityKey, entityData, <<"@">> \o name))

\* the branch for a type that is not built in
CustomEntityStep(st, entityKey, entityData, name, loc) ==
    IF ~hasEntityTypes(st.model)
    THEN Throw(st, NoEntityTypesError(st.model, name))
    ELSE IF ~hasEntityTypeByName(st.model, name)
    THEN Throw(st, UndeclaredTypeError(st.model, name))
    ELSE LET entityType == getEntityTypeByName(st.model, name)
             pushed == [st EXCEPT
                 !.files = @ \o EntityTypeFiles(name, entityType, loc),
                 !.model.entityTypes =
                     Put(@, name, EntityTypeAfterExport(name, entityType))]
         IN  PushParameter(pushed, ParameterObj(entityKey, entityData, <<"@">> \o name))

\* one iteration of the loop over the entities of an intent
EntityStep(st, intentKey, entityKey, entityData, loc) ==
    IF st.raised THEN st
    ELSE IF TypeMissing(entityData)
    THEN Throw(st, ErrorMessage("Invalid entity type in intent", intentKey, ""))
    ELSE IF TypeIsObject(entityData) /\ ~TypeHasDialogflow(entityData)
    THEN Throw(st, ErrorMessage("Please add a dialogflow property for entity",
                                entityKey, ""))
    ELSE IF IsBuiltinType(ResolvedDataType(entityData))
    THEN PushParameter(st, ParameterObj(entityKey, entityData,
                                        ResolvedDataType(entityData)))
    ELSE CustomEntityStep(st, entityKey, entityData, ResolvedDataType(entityData), loc)

RECURSIVE EntityLoop(_, _, _, _, _)
EntityLoop(st, intentKey, ents, i, loc) ==
    IF i > Len(ents) THEN st
    ELSE EntityLoop(EntityStep(st, intentKey, ents[i].key, ents[i].data, loc),
                    intentKey, ents, i + 1, loc)

-----------------------------------------------------------------------------
(* fromJovoModel: the intent record and its sample phrases *)

Max(a, b) == IF a >= b THEN a ELSE b

MinOf(S) == CHOOSE i \in S : \A j \in S : i <= j

\* _merge of two responses arrays: index-wise, objects merged key-wise
MergeResponses(d, s) ==
    [i \in 1..Max(Len(d), Len(s)) |->
        IF i > Len(s) THEN d[i] ELSE IF i > Len(d) THEN s[i] ELSE Merge(d[i], s[i])]

\* _merge(dfIntentObj, intentData.dialogflow)
MergeIntent(dst, src) ==
    IF Has(src, "responses") /\ Has(dst, "responses")
    THEN [Merge(dst, src) EXCEPT !.responses = MergeResponses(dst.responses, src.responses)]
    ELSE Merge(dst, src)

\* the native intent record: base record, parameters, vendor overrides
DfIntentObj(m, intentKey, intentData, parameters) ==
    LET base == [id |-> uuidv4, name |-> intentKey, auto |-> TRUE, webhookUsed |-> TRUE]
        withResponses ==
            IF hasEntities(m, intentKey)
            THEN [responses |-> <<[parameters |-> parameters]>>] @@ base
            ELSE base
    IN  IF Has(intentData, "dialogflow")
        THEN MergeIntent(withResponses, intentData.dialogflow)
        ELSE withResponses

LineTerminators == {"\n", "\r"}

\* positions (1-based) of a "{" from which /{(.*?)}/ matches, searching from lastIndex
MatchStarts(phrase, lastIndex) ==
    {i \in (lastIndex + 1)..Len(phrase) :
        /\ phrase[i] = "{"
        /\ \E j \in (i + 1)..Len(phrase) :
              /\ phrase[j] = "}"
              /\ \A k \in (i + 1)..(j - 1) : phrase[k] \notin LineTerminators}

\* re.exec(phrase) with re.lastIndex = lastIndex: m.index (0-based) and m[1]
RegexExec(phrase, lastIndex) ==
    IF MatchStarts(phrase, lastIndex) = {} THEN [found |-> FALSE]
    ELSE LET i == MinOf(MatchStarts(phrase, lastIndex))
             j == MinOf({j \in (i + 1)..Len(phrase) : phrase[j] = "}"})
         IN  [found |-> TRUE, index |-> i - 1, group |-> SubSeq(phrase, i + 1, j - 1)]

\* _get(dfIntentObj, 'responses[0].parameters'), or the empty list
ParametersOf(dfIntentObj) ==
    IF /\ Has(dfIntentObj, "responses")
       /\ Len(dfIntentObj.responses) > 0
       /\ Has(dfIntentObj.responses[1], "parameters")
    THEN dfIntentObj.responses[1].parameters
    ELSE <<>>

\* the display text of an entity segment: the exemplar text when there is one
EntityText(m, intentKey, entity) ==
    IF /\ hasEntities(m, intentKey)
       /\ HasKey(getEntities(m, intentKey), entity)
       /\ Has(Lookup(getEntities(m, intentKey), entity), "text")
       /\ Lookup(getEntities(m, intentKey), entity).text # <<>>
    THEN Lookup(getEntities(m, intentKey), entity).text
    ELSE entity

\* the entity segment of a marker: alias and meta from the parameter of that name
DataEntityObj(m, intentKey, dfIntentObj, entity) ==
    LET base == [text |-> EntityText(m, intentKey, entity), userDefined |-> TRUE]
        ps == ParametersOf(dfIntentObj)
        hits == {i \in 1..Len(ps) : ps[i].name = entity}
    IN  IF hits = {} THEN base
        ELSE LET item == ps[CHOOSE i \in hits : \A j \in hits : j <= i]
             IN  [alias |-> item.name, meta |-> item.dataType] @@ base

DataTextObj(text) == [text |-> text, userDefined |-> FALSE]

\* mutant: the literal segment before a marker is pushed even when it is empty
PushTextAlways(data, text) == Append(data, DataTextObj(text))

\* the literal segment before a marker is pushed only when text.length > 0
PushText(data, text) == IF Len(text) > 0 THEN Append(data, DataTextObj(text)) ELSE data

\* the while (true) loop over the markers of one phrase
RECURSIVE ScanLoop(_, _, _, _, _, _)
ScanLoop(m, intentKey, dfIntentObj, phrase, pos, data) ==
    LET r == RegexExec(phrase, pos)
    IN  IF ~r.found THEN [pos |-> pos, data |-> data]
        ELSE ScanLoop(m, intentKey, dfIntentObj, phrase,
                      r.index + 1 + Len(r.group) + 1,
                      Append(PushText(data, Substr(phrase, pos, r.index - pos)),
                             DataEntityObj(m, intentKey, dfIntentObj,
                                           Substr(phrase, r.index + 1, Len(r.group)))))

\* the data segments of one phrase
PhraseData(m, intentKey, dfIntentObj, phrase) ==
    LET scanned == ScanLoop(m, intentKey, dfIntentObj, phrase, 0, <<>>)
        withTail == IF scanned.pos < Len(phrase)
                    THEN Append(scanned.data, DataTextObj(SubstrFrom(phrase, scanned.pos)))
                    ELSE scanned.data
    IN  IF Len(withTail) = 0 THEN <<DataTextObj(phrase)>> ELSE withTail

UserSaysRecord(data, loc) ==
    [id |-> uuidv4, data |-> data, isTemplate |-> FALSE, count |-> 0, lang |-> loc]

PhrasesOf(intentData) == IF Has(intentData, "phrases") THEN intentData.phrases ELSE <<>>

\* the intent file and, when there are phrases, its usersays file
IntentFiles(m, intentKey, intentData, parameters, loc) ==
    LET dfIntentObj == DfIntentObj(m, intentKey, intentData, parameters)
        phrases == PhrasesOf(intentData)
    IN  <<File(IntentFilePath(intentKey), dfIntentObj)>> \o
        (IF Len(phrases) > 0
         THEN <<File(UsersaysFilePath(intentKey, loc),
                     [i \in 1..Len(phrases) |->
                         UserSaysRecord(PhraseData(m, intentKey, dfIntentObj, phrases[i]),
                                        loc)])>>
         ELSE <<>>)

\* one iteration of the loop over the intents
IntentStep(st, intentKey, intentData, loc) ==
    IF st.raised THEN st
    ELSE LET fresh == [st EXCEPT !.parameters = <<>>]
             afterEntities ==
                 IF hasEntities(st.model, intentKey)
                 THEN EntityLoop(fresh, intentKey, getEntities(st.model, intentKey), 1, loc)
                 ELSE fresh
         IN  IF afterEntities.raised THEN afterEntities
             ELSE [afterEntities EXCEPT !.files =
                     @ \o IntentFiles(afterEntities.model, intentKey, intentData,
                                      afterEntities.parameters, loc)]

RECURSIVE IntentLoop(_, _, _, _)
IntentLoop(st, ints, i, loc) ==
    IF i > Len(ints) THEN st
    ELSE IntentLoop(IntentStep(st, ints[i].key, ints[i].data, loc), ints, i + 1, loc)

-----------------------------------------------------------------------------
(* fromJovoModel: records supplied under model.dialogflow *)

\* files of one record of model.dialogflow.intents
VendorIntentFiles(item, loc) ==
    (IF Has(item, "userSays")
     THEN <<File(<<intentsDir, item.name \o UsersaysInfix \o loc \o DotJson>>, item.userSays)>>
     ELSE <<>>) \o
    <<File(<<intentsDir, item.name \o DotJson>>, RemoveField(item, "userSays"))>>

\* files of one record of model.dialogflow.entities
VendorEntityFiles(item, loc) ==
    (IF Has(item, "entries")
     THEN <<File(<<entitiesDir, item.name \o EntriesInfix \o loc \o DotJson>>, item.entries)>>
     ELSE <<>>) \o
    <<File(<<entitiesDir, item.name \o DotJson>>, RemoveField(item, "entries"))>>

RECURSIVE Flatten(_)
Flatten(ss) == IF Len(ss) = 0 THEN <<>> ELSE Head(ss) \o Flatten(Tail(ss))

VendorIntents(m) ==
    IF Has(m, "dialogflow") /\ Has(m.dialogflow, "intents") THEN m.dialogflow.intents
    ELSE <<>>

VendorEntities(m) ==
    IF Has(m, "dialogflow") /\ Has(m.dialogflow, "entities") THEN m.dialogflow.entities
    ELSE <<>>

\* the model after delete modelDialogflowIntent.userSays / delete ...entries
ModelAfterVendor(m) ==
    LET a == IF Has(m, "dialogflow") /\ Has(m.dialogflow, "intents")
             THEN [m EXCEPT !.dialogflow.intents =
                     [i \in 1..Len(@) |-> RemoveField(@[i], "userSays")]]
             ELSE m
    IN  IF Has(a, "dialogflow") /\ Has(a.dialogflow, "entities")
        THEN [a EXCEPT !.dialogflow.entities =
                [i \in 1..Len(@) |-> RemoveField(@[i], "entries")]]
        ELSE a

VendorStep(st, loc) ==
    IF st.raised THEN st
    ELSE [st EXCEPT
            !.files = @ \o
                Flatten([i \in 1..Len(VendorIntents(st.model)) |->
                            VendorIntentFiles(VendorIntents(st.model)[i], loc)]) \o
                Flatten([i \in 1..Len(VendorEntities(st.model)) |->
                            VendorEntityFiles(VendorEntities(st.model)[i], loc)]),
            !.model = ModelAfterVendor(st.model)]

\* the whole call: the files returned (none when it raised), the error, and the
\* caller's model as the call leaves it
fromJovoModel(m, loc) ==
    LET start == [model |-> m, files |-> <<>>, parameters |-> <<>>,
                  raised |-> FALSE, error |-> NoError]
        done == VendorStep(IntentLoop(start, getIntents(m), 1, loc), loc)
    IN  [raised |-> done.raised,
         error |-> done.error,
         files |-> IF done.raised THEN <<>> ELSE done.files,
         model |-> done.model]

-----------------------------------------------------------------------------
(* skipDefaultIntentProps / skipDefaultEntityProps *)

\* the JS value undefined, where the code stores it
Undefined == "undefined"

\* _get(obj, field), undefined when the field is absent
GetOrUndefined(obj, f) == IF Has(obj, f) THEN obj[f] ELSE Undefined

\* a one-field object when cond holds, no field otherwise
FieldIf(cond, f, v) == IF cond THEN f :> v ELSE <<>>

\* the messages of the current locale that carry speech
LocaleMessages(messages, loc) ==
    SelectSeq(messages,
              LAMBDA msg : /\ Has(msg, "lang") /\ msg.lang = loc
                           /\ Has(msg, "speech") /\ Len(msg.speech) > 0)

\* the sub-fields of responses[0] written to dialogflow.responses[0]
ResponseDeviations(r0, loc) ==
    FieldIf(Has(r0, "resetContexts") /\ r0.resetContexts # DEFAULT_RESPONSE.resetContexts,
            "resetContexts", GetOrUndefined(r0, "resetContexts")) @@
    FieldIf(Has(r0, "affectedContexts") /\ Len(r0.affectedContexts) # 0,
            "affectedContexts", GetOrUndefined(r0, "affectedContexts")) @@
    FieldIf(Has(r0, "defaultResponsePlatforms") /\ DOMAIN r0.defaultResponsePlatforms # {},
            "defaultResponsePlatforms", GetOrUndefined(r0, "defaultResponsePlatforms")) @@
    FieldIf(Has(r0, "messages") /\ Len(LocaleMessages(r0.messages, loc)) > 0,
            "messages",
            IF Has(r0, "messages") THEN LocaleMessages(r0.messages, loc) ELSE <<>>) @@
    FieldIf(Has(r0, "speech") /\ Len(r0.speech) # 0,
            "speech", GetOrUndefined(r0, "speech"))

\* _isEqual(responses, DEFAULT_INTENT.responses)
IsDefaultResponses(responses) ==
    /\ Len(responses) = 1
    /\ DOMAIN responses[1] = DOMAIN DEFAULT_RESPONSE
    /\ responses[1].resetContexts = FALSE
    /\ Len(responses[1].affectedContexts) = 0
    /\ Len(responses[1].parameters) = 0
    /\ DOMAIN responses[1].defaultResponsePlatforms = {}
    /\ Len(responses[1].speech) = 0

\* the responses block is entered only for a non-empty, non-default responses list
ResponsesInspected(dfi) ==
    /\ Has(dfi, "responses")
    /\ Len(dfi.responses) # 0
    /\ ~IsDefaultResponses(dfi.responses)

\* the dialogflow sub-tree skipDefaultIntentProps leaves on jovoIntent; an empty
\* domain means that no dialogflow field was set at all
SkipDefaultIntentProps(dfi, loc) ==
    FieldIf(~Has(dfi, "auto") \/ dfi.auto # DEFAULT_INTENT.auto,
            "auto", GetOrUndefined(dfi, "auto")) @@
    FieldIf(Has(dfi, "contexts") /\ Len(dfi.contexts) > 0,
            "contexts", GetOrUndefined(dfi, "contexts")) @@
    FieldIf(Has(dfi, "priority") /\ dfi.priority # DEFAULT_INTENT.priority,
            "priority", GetOrUndefined(dfi, "priority")) @@
    FieldIf(Has(dfi, "webhookUsed") /\ dfi.webhookUsed # DEFAULT_INTENT.webhookUsed,
            "webhookUsed", GetOrUndefined(dfi, "webhookUsed")) @@
    FieldIf(Has(dfi, "webhookForSlotFilling")
                /\ dfi.webhookForSlotFilling # DEFAULT_INTENT.webhookForSlotFilling,
            "webhookForSlotFilling", GetOrUndefined(dfi, "webhookForSlotFilling")) @@
    FieldIf(Has(dfi, "fallbackIntent") /\ dfi.fallbackIntent # DEFAULT_INTENT.fallbackIntent,
            "fallbackIntent", GetOrUndefined(dfi, "fallbackIntent")) @@
    FieldIf(Has(dfi, "events") /\ Len(dfi.events) > 0,
            "events", GetOrUndefined(dfi, "events")) @@
    FieldIf(ResponsesInspected(dfi)
                /\ DOMAIN ResponseDeviations(dfi.responses[1], loc) # {},
            "responses",
            IF ResponsesInspected(dfi)
            THEN <<ResponseDeviations(dfi.responses[1], loc)>> ELSE <<>>)

\* _get(entity, flag) !== DEFAULT_ENTITY[flag]
FlagDeviates(dfe, f) == ~Has(dfe, f) \/ dfe[f] # DEFAULT_ENTITY[f]

\* the dialogflow sub-tree skipDefaultEntityProps leaves on the entity type
SkipDefaultEntityProps(dfe) ==
    FieldIf(FlagDeviates(dfe, "isOverridable"),
            "isOverridable", GetOrUndefined(dfe, "isOverridable")) @@
    FieldIf(FlagDeviates(dfe, "isEnum"), "isEnum", GetOrUndefined(dfe, "isEnum")) @@
    FieldIf(FlagDeviates(dfe, "automatedExpansion"),
            "automatedExpansion", GetOrUndefined(dfe, "automatedExpansion")) @@
    FieldIf(FlagDeviates(dfe, "isRegexp"), "isRegexp", GetOrUndefined(dfe, "isRegexp")) @@
    FieldIf(FlagDeviates(dfe, "allowFuzzyExtraction"),
            "allowFuzzyExtraction", GetOrUndefined(dfe, "allowFuzzyExtraction"))

\* an object with or without its dialogflow sub-tree
WithDialogflow(obj, dialogflow) ==
    IF DOMAIN dialogflow = {} THEN obj ELSE ("dialogflow" :> dialogflow) @@ obj

-----------------------------------------------------------------------------
(* toJovoModel: native files -> canonical model *)

\* inputData.filter(...) : the files whose first path segment is dir
FilesUnder(files, dir) ==
    SelectSeq(files, LAMBDA f : Len(f.path) # 0 /\ f.path[1] = dir)

\* files.find(file => file.path[1] === name): index of the first one, 0 when none
FindFile(files, name) ==
    LET hits == {i \in 1..Len(files) : Len(files[i].path) >= 2 /\ files[i].path[2] = name}
    IN  IF hits = {} THEN 0 ELSE MinOf(hits)

\* fileInformation.path[1] is undefined: file.indexOf(...) is a TypeError
SegmentMissing(fileInformation) == Len(fileInformation.path) < 2

IsFallbackIntent(dfi) == Has(dfi, "fallbackIntent") /\ dfi.fallbackIntent = TRUE

\* _get(dialogFlowIntent, 'events[0].name') === 'WELCOME'
IsWelcomeIntent(dfi) ==
    /\ Has(dfi, "events")
    /\ Len(dfi.events) > 0
    /\ Has(dfi.events[1], "name")
    /\ dfi.events[1].name = WELCOME

\* jovoIntent.dialogflow tagged with the native name
TaggedIntent(dfi, loc) == ("name" :> dfi.name) @@ SkipDefaultIntentProps(dfi, loc)

\* _set(jovoModel, 'dialogflow.intents', [fallbackIntent])
SetFallback(jm, tagged) ==
    IF Has(jm, "dialogflow")
    THEN [jm EXCEPT !.dialogflow = ("intents" :> <<tagged>>) @@ @]
    ELSE ("dialogflow" :> [intents |-> <<tagged>>]) @@ jm

\* the welcome branch: create the list, or push onto the one that is there
AddWelcome(jm, tagged) ==
    IF Has(jm, "dialogflow") /\ Has(jm.dialogflow, "intents")
    THEN [jm EXCEPT !.dialogflow.intents = Append(@, tagged)]
    ELSE SetFallback(jm, tagged)

\* the entity a parameter declares
EntityOfParameter(parameter) ==
    IF StartsWith(parameter.dataType, <<"@", "s", "y", "s", ".">>)
    THEN [type |-> [dialogflow |-> parameter.dataType]]
    ELSE [type |-> [string |-> SubstrFrom(parameter.dataType, 1)]]

\* all parameters of all responses, in order
AllParameters(dfi) ==
    IF Has(dfi, "responses")
    THEN Flatten([i \in 1..Len(dfi.responses) |->
                    IF Has(dfi.responses[i], "parameters")
                    THEN dfi.responses[i].parameters ELSE <<>>])
    ELSE <<>>

RECURSIVE EntitiesOf(_, _, _)
EntitiesOf(ps, i, acc) ==
    IF i > Len(ps) THEN acc
    ELSE EntitiesOf(ps, i + 1,
                    IF Has(ps[i], "dataType") /\ ps[i].dataType # <<>>
                    THEN Put(acc, ps[i].name, EntityOfParameter(ps[i]))
                    ELSE acc)

\* the text one segment adds to the phrase
SegmentText(data) ==
    IF Has(data, "alias") /\ data.alias # <<>>
    THEN <<"{">> \o data.alias \o <<"}">>
    ELSE data.text

\* entityData.text = data.text for the entity the segment is the alias of
BackfillText(ents, data) ==
    IF Has(data, "alias") /\ data.text # data.alias /\ HasKey(ents, data.alias)
    THEN Put(ents, data.alias, ("text" :> data.text) @@ Lookup(ents, data.alias))
    ELSE ents

\* a usersays record with no data array: for (const data of us.data) is a TypeError
UserSaysRaises(userSays) == \E i \in 1..Len(userSays) : ~Has(userSays[i], "data")

PhraseOf(us) == Flatten([i \in 1..Len(us.data) |-> SegmentText(us.data[i])])

RECURSIVE BackfillAll(_, _, _)
BackfillAll(ents, segs, i) ==
    IF i > Len(segs) THEN ents
    ELSE BackfillAll(BackfillText(ents, segs[i]), segs, i + 1)

AllSegments(userSays) == Flatten([i \in 1..Len(userSays) |-> userSays[i].data])

\* the canonical intent of a primary intent file (neither fallback nor welcome)
JovoIntent(dfi, userSays, loc) ==
    LET declared == EntitiesOf(AllParameters(dfi), 1, <<>>)
        base == WithDialogflow([phrases |-> [i \in 1..Len(userSays) |-> PhraseOf(userSays[i])]],
                               SkipDefaultIntentProps(dfi, loc))
    IN  IF Len(declared) > 0
        THEN ("entities" :> BackfillAll(declared, AllSegments(userSays), 1)) @@ base
        ELSE base

\* one iteration of the loop over the intent files
ImportIntentStep(st, fileInformation, intentFiles, loc) ==
    IF st.raised THEN st
    ELSE IF SegmentMissing(fileInformation) THEN [st EXCEPT !.raised = TRUE]
    ELSE IF IndexOf(fileInformation.path[2], usersays) > -1 THEN st
    ELSE LET dfi == fileInformation.content
             found == FindFile(intentFiles, dfi.name \o UsersaysInfix \o loc \o DotJson)
             userSays == IF found = 0 THEN <<>> ELSE intentFiles[found].content
         IN  IF IsFallbackIntent(dfi)
             THEN [st EXCEPT !.model = SetFallback(@, TaggedIntent(dfi, loc))]
             ELSE IF IsWelcomeIntent(dfi)
             THEN [st EXCEPT !.model = AddWelcome(@, TaggedIntent(dfi, loc))]
             ELSE IF UserSaysRaises(userSays) THEN [st EXCEPT !.raised = TRUE]
             ELSE [st EXCEPT !.model.intents = Put(@, dfi.name, JovoIntent(dfi, userSays, loc))]

\* mutant: the value itself is not filtered out
TempSynonymsUnfiltered(entry) == entry.synonyms

\* the synonyms kept for an entry: every one that is not the value itself
TempSynonyms(entry) == SelectSeq(entry.synonyms, LAMBDA synonym : synonym # entry.value)

\* !dialogFlowEntity.isEnum && !dialogFlowEntity.isRegexp
CopiesSynonyms(dfe) ==
    /\ ~(Has(dfe, "isEnum") /\ dfe.isEnum)
    /\ ~(Has(dfe, "isRegexp") /\ dfe.isRegexp)

\* the canonical value of one entry
ValueOfEntry(entry, dfe) ==
    IF CopiesSynonyms(dfe) /\ Len(TempSynonyms(entry)) # 0
    THEN [value |-> entry.value, synonyms |-> TempSynonyms(entry)]
    ELSE [value |-> entry.value]

\* an entry with no synonyms array: for (const synonym of entry.synonyms) is a TypeError
EntriesRaise(entriesContent, dfe) ==
    CopiesSynonyms(dfe) /\ \E i \in 1..Len(entriesContent) : ~Has(entriesContent[i], "synonyms")

JovoEntity(dfe, entriesContent) ==
    WithDialogflow([values |-> [i \in 1..Len(entriesContent) |->
                                   ValueOfEntry(entriesContent[i], dfe)]],
                   SkipDefaultEntityProps(dfe))

\* one iteration of the loop over the entity files
ImportEntityStep(st, fileInformation, entityFiles, loc) ==
    IF st.raised THEN st
    ELSE IF SegmentMissing(fileInformation) THEN [st EXCEPT !.raised = TRUE]
    ELSE IF IndexOf(fileInformation.path[2], entries) > -1 THEN st
    ELSE LET dfe == fileInformation.content
             found == FindFile(entityFiles, dfe.name \o EntriesInfix \o loc \o DotJson)
             entriesContent == IF found = 0 THEN <<>> ELSE entityFiles[found].content
         IN  IF EntriesRaise(entriesContent, dfe) THEN [st EXCEPT !.raised = TRUE]
             ELSE [st EXCEPT !.model.entityTypes =
                     Put(@, dfe.name, JovoEntity(dfe, entriesContent))]

RECURSIVE ImportIntentLoop(_, _, _, _)
ImportIntentLoop(st, intentFiles, i, loc) ==
    IF i > Len(intentFiles) THEN st
    ELSE ImportIntentLoop(ImportIntentStep(st, intentFiles[i], intentFiles, loc),
                          intentFiles, i + 1, loc)

RECURSIVE ImportEntityLoop(_, _, _, _)
ImportEntityLoop(st, entityFiles, i, loc) ==
    IF i > Len(entityFiles) THEN st
    ELSE ImportEntityLoop(ImportEntityStep(st, entityFiles[i], entityFiles, loc),
                          entityFiles, i + 1, loc)

EmptyJovoModel == [version |-> "4.0", invocation |-> <<>>, intents |-> <<>>, entityTypes |-> <<>>]

\* the whole call: the model returned, or raised = TRUE when a TypeError ended it
toJovoModel(files, loc) ==
    LET start == [model |-> EmptyJovoModel, raised |-> FALSE]
        afterIntents == ImportIntentLoop(start, FilesUnder(files, intentsDir), 1, loc)
    IN  ImportEntityLoop(afterIntents, FilesUnder(files, entitiesDir), 1, loc)

-----------------------------------------------------------------------------
(* Inputs: canonical models *)

MaxIntents == 2

en == <<"e", "n">>
de == <<"d", "e">>
Locales == {en, de}

NameChars == <<"a", "b", "c", "d", "e", "f", "g", "h">>

\* the key of the n-th intent of a model
IntentName(n) == <<"i", NameChars[n]>>

TypeT == <<"t">>
TypeU == <<"u">>
SysNumber == <<"@", "s", "y", "s", ".", "n">>
SysAny == <<"@", "s", "y", "s", ".", "a">>
EntC == <<"c">>
EntD == <<"d">>

Entry(k, v) == [key |-> k, data |-> v]

\* entity types: clean values, values and synonyms with characters the exporter
\* strips, a bare string value, no values, an enum, a renamed type
EntityTypePool ==
    { [values |-> <<[value |-> <<"a", "b">>, synonyms |-> <<<<"x">>, <<"y", "z">>>>]>>],
      [values |-> <<[value |-> <<"a", ".">>, synonyms |-> <<<<"b", "!">>, <<"a">>>>],
                    [value |-> <<"v">>]>>],
      [values |-> <<[string |-> <<"s">>]>>],
      [values |-> <<>>],
      [values |-> <<[value |-> <<"a">>, synonyms |-> <<<<"b", "?">>>>]>>,
       dialogflow |-> [isEnum |-> TRUE]],
      [values |-> <<[value |-> <<"a">>, synonyms |-> <<<<"b">>>>]>>,
       dialogflow |-> [string |-> <<"r">>]] }

\* the entityTypes object of a model: one type t, or t and an unreferenced u
EntityTypesPool ==
    {<<>>} \cup {<<Entry(TypeT, et)>> : et \in EntityTypePool}
           \cup {<<Entry(TypeT, et), Entry(TypeU, et)>> : et \in {[values |-> <<[value |-> <<"v">>]>>]}}

\* intents: without entities, with custom / built-in / unresolved / malformed
\* entity types, with exemplar text, with vendor overrides
IntentPool ==
    { [phrases |-> <<<<"h", "i">>>>],
      [phrases |-> <<<<"a", " ", "{", "c", "}", " ", "b">>, <<"{", "c", "}", "{", "d", "}">>>>,
       entities |-> <<Entry(EntC, [type |-> [string |-> TypeT]]),
                      Entry(EntD, [type |-> [string |-> TypeT], text |-> <<"x">>])>>],
      [phrases |-> <<<<"{", "c", "}">>>>,
       entities |-> <<Entry(EntC, [type |-> [dialogflow |-> SysNumber]]),
                      Entry(EntD, [type |-> [string |-> SysNumber]])>>],
      [phrases |-> <<<<"{", "t", "}">>>>,
       entities |-> <<Entry(TypeT, [type |-> [string |-> TypeT]])>>],
      [phrases |-> <<<<"a">>>>,
       entities |-> <<Entry(EntC, [type |-> [string |-> TypeU]])>>],
      [phrases |-> <<>>,
       entities |-> <<Entry(EntC, [text |-> <<"x">>])>>],
      [entities |-> <<Entry(EntC, [type |-> [alexa |-> <<"A">>]])>>],
      [phrases |-> <<<<"{", "c", "}", " ", "{", "d", "}">>>>,
       entities |-> <<Entry(EntC, [type |-> [dialogflow |-> SysNumber],
                                   dialogflow |-> [dataType |-> SysAny]]),
                      Entry(EntD, [type |-> [string |-> TypeT],
                                   dialogflow |-> [isList |-> TRUE]])>>],
      [phrases |-> <<<<"p">>>>,
       dialogflow |-> [priority |-> 1, webhookUsed |-> FALSE]] }

\* the intents object: up to MaxIntents intents, keyed in insertion order
IntentsOfSize(n) ==
    {[k \in 1..n |-> Entry(IntentName(k), f[k])] : f \in [1..n -> IntentPool]}

IntentsPool == UNION {IntentsOfSize(n) : n \in 0..MaxIntents}

\* records supplied under model.dialogflow
VendorPool ==
    { [intents |-> <<[name |-> <<"w">>, events |-> <<[name |-> WELCOME]>>,
                      userSays |-> <<[data |-> <<[text |-> <<"h">>, userDefined |-> FALSE]>>]>>]>>,
       entities |-> <<[name |-> <<"e">>, isEnum |-> TRUE,
                       entries |-> <<[value |-> <<"v">>, synonyms |-> <<<<"v">>>>]>>]>>] }

Versions == {"3.0", "4.0"}

\* the models a caller hands to fromJovoModel
Models ==
    {[version |-> v, invocation |-> <<>>, intents |-> ints] :
        v \in Versions, ints \in IntentsPool}
    \cup
    {[version |-> v, invocation |-> <<>>, intents |-> ints, entityTypes |-> ets] :
        v \in Versions, ints \in IntentsPool, ets \in EntityTypesPool}
    \cup
    {[version |-> v, invocation |-> <<>>, intents |-> ints, entityTypes |-> ets,
      dialogflow |-> d] :
        v \in Versions, ints \in IntentsOfSize(1), ets \in EntityTypesPool, d \in VendorPool}

-----------------------------------------------------------------------------
(* The conversions as steps of a caller *)

TypeOK ==
    phase \in {"model", "exported", "exportFailed", "native", "imported", "importFailed"}

\* fromJovoModel(model, locale): returns the files or throws; either way the
\* caller's model is left as the call's in-place writes made it
FromJovoModel ==
    /\ phase = "model"
    /\ LET r == fromJovoModel(model, locale)
       IN  /\ phase' = IF r.raised THEN "exportFailed" ELSE "exported"
           /\ returnFiles' = r.files
           /\ exportError' = r.error
           /\ model' = r.model
    /\ UNCHANGED <<locale, original, inputData, jovoModel, importRaised>>

\* toJovoModel(files, locale): returns the model or throws
Import(files) ==
    LET r == toJovoModel(files, locale)
    IN  /\ phase' = IF r.raised THEN "importFailed" ELSE "imported"
        /\ importRaised' = r.raised
        /\ jovoModel' = IF r.raised THEN jovoModel ELSE r.model

\* toJovoModel(fromJovoModel(model, locale), locale)
ImportExported ==
    /\ phase = "exported"
    /\ inputData' = returnFiles
    /\ Import(returnFiles)
    /\ UNCHANGED <<locale, model, original, returnFiles, exportError>>

\* toJovoModel(inputData, locale) on a native file set
ImportNative ==
    /\ phase = "native"
    /\ Import(inputData)
    /\ UNCHANGED <<locale, model, original, returnFiles, exportError, inputData>>

InitWith(m, loc) ==
    /\ phase = "model"
    /\ locale = loc
    /\ model = m
    /\ original = m
    /\ returnFiles = <<>>
    /\ exportError = NoError
    /\ inputData = <<>>
    /\ jovoModel = EmptyJovoModel
    /\ importRaised = FALSE

Init == \E m \in Models, loc \in Locales : InitWith(m, loc)

Next == FromJovoModel \/ ImportExported

Spec == Init /\ [][Next]_vars

-----------------------------------------------------------------------------
(* Inputs: phrases *)

MaxPhraseLen == 6

PhraseAlphabet == {"a", "{", "}"}

\* every phrase of up to MaxPhraseLen characters
Phrases == UNION {[1..n -> PhraseAlphabet] : n \in 0..MaxPhraseLen}

EntA == <<"a">>

\* intent names: a plain one, and one that contains the text usersays
PhraseIntentNames == {IntentName(1), <<"m", "y">> \o usersays}

\* one intent with one phrase; a is an entity of the custom type t, with or
\* without exemplar text
PhraseModel(name, phrase, withText) ==
    [version |-> "4.0", invocation |-> <<>>,
     intents |-> <<Entry(name,
                     [phrases |-> <<phrase>>,
                      entities |-> <<Entry(EntA,
                          IF withText
                          THEN [type |-> [string |-> TypeT], text |-> <<"x", "y">>]
                          ELSE [type |-> [string |-> TypeT]])>>])>>,
     entityTypes |-> <<Entry(TypeT, [values |-> <<[value |-> <<"v">>]>>])>>]

InitPhrase ==
    \E name \in PhraseIntentNames, phrase \in Phrases, withText \in BOOLEAN :
        InitWith(PhraseModel(name, phrase, withText), en)

SpecPhrase == InitPhrase /\ [][Next]_vars

-----------------------------------------------------------------------------
(* Inputs: native file sets *)

MaxIntentFiles == 3

MaxEntityFiles == 3

Json(name) == name \o DotJson

\* names that merely contain the text of a companion-file infix
MyUsersays == <<"m", "y">> \o usersays
DiaryEntriesList == <<"d", "i", "a", "r", "y">> \o EntriesInfix \o <<"l", "i", "s", "t">>

Parameter(name, dataType) ==
    [name |-> name, dataType |-> dataType, value |-> <<"$">> \o name, isList |-> FALSE]

\* primary intent files (a plain one with parameters and messages but no
\* resetContexts etc., one with no responses, one at the defaults, a fallback,
\* two welcome intents, one whose name contains the text usersays), usersays
\* companions (a well-formed one, one whose record has no data array) and a
\* file whose path has a single segment
IntentFilePool ==
    { File(<<intentsDir, Json(<<"r">>)>>,
           [name |-> <<"r">>, auto |-> TRUE, webhookUsed |-> FALSE,
            responses |-> <<[parameters |-> <<Parameter(EntC, <<"@", "t">>),
                                              Parameter(EntD, SysNumber)>>,
                             messages |-> <<[lang |-> en, speech |-> <<"h">>],
                                            [lang |-> de, speech |-> <<>>]>>]>>]),
      File(<<intentsDir, Json(<<"s">>)>>,
           [name |-> <<"s">>, auto |-> TRUE, webhookUsed |-> TRUE]),
      File(<<intentsDir, Json(<<"q">>)>>,
           [name |-> <<"q">>, auto |-> TRUE, contexts |-> <<>>,
            responses |-> <<DEFAULT_RESPONSE>>, priority |-> DEFAULT_PRIORITY,
            webhookUsed |-> FALSE, webhookForSlotFilling |-> FALSE,
            fallbackIntent |-> FALSE, events |-> <<>>]),
      File(<<intentsDir, Json(<<"f">>)>>,
           [name |-> <<"f">>, auto |-> TRUE, fallbackIntent |-> TRUE]),
      File(<<intentsDir, Json(<<"w">>)>>,
           [name |-> <<"w">>, auto |-> TRUE, events |-> <<[name |-> WELCOME]>>]),
      File(<<intentsDir, Json(<<"v">>)>>,
           [name |-> <<"v">>, auto |-> TRUE, events |-> <<[name |-> WELCOME]>>,
            priority |-> 1]),
      File(<<intentsDir, <<"r">> \o UsersaysInfix \o en \o DotJson>>,
           <<[data |-> <<[text |-> <<"a", " ">>, userDefined |-> FALSE],
                         [text |-> <<"x">>, userDefined |-> TRUE, alias |-> EntC,
                          meta |-> <<"@", "t">>],
                         [text |-> <<"d">>, userDefined |-> TRUE, alias |-> EntD,
                          meta |-> SysNumber]>>]>>),
      File(<<intentsDir, <<"r">> \o UsersaysInfix \o en \o DotJson>>,
           <<[id |-> uuidv4, isTemplate |-> FALSE]>>),
      File(<<intentsDir, Json(MyUsersays)>>,
           [name |-> MyUsersays, auto |-> TRUE, webhookUsed |-> FALSE]),
      File(<<intentsDir>>, [name |-> <<"o">>, auto |-> TRUE]) }

\* primary entity files (plain, enum, regexp with the other flags absent, one
\* whose name contains the text _entries_), entries companions (well-formed, with a record that has no synonyms array,
\* for the other locale) and a file whose path has a single segment
EntityFilePool ==
    { File(<<entitiesDir, Json(TypeT)>>, [name |-> TypeT] @@ DEFAULT_ENTITY),
      File(<<entitiesDir, Json(<<"n">>)>>,
           [name |-> TypeT, isEnum |-> TRUE] @@ DEFAULT_ENTITY),
      File(<<entitiesDir, Json(<<"g">>)>>, [name |-> TypeT, isRegexp |-> TRUE]),
      File(<<entitiesDir, TypeT \o EntriesInfix \o en \o DotJson>>,
           <<[value |-> <<"v">>, synonyms |-> <<<<"v">>, <<"w">>>>],
             [value |-> <<"a">>, synonyms |-> <<<<"a">>>>]>>),
      File(<<entitiesDir, TypeT \o EntriesInfix \o en \o DotJson>>,
           <<[value |-> <<"v">>]>>),
      File(<<entitiesDir, TypeT \o EntriesInfix \o de \o DotJson>>,
           <<[value |-> <<"x">>, synonyms |-> <<<<"y">>, <<"x">>, <<"z">>>>]>>),
      File(<<entitiesDir, Json(DiaryEntriesList)>>,
           [name |-> DiaryEntriesList] @@ DEFAULT_ENTITY),
      File(<<entitiesDir>>, [name |-> <<"o">>]) }

SeqsUpTo(S, n) == UNION {[1..k -> S] : k \in 0..n}

\* file sets: intent files in every order, entity files in every order
NativeInputs ==
    SeqsUpTo(IntentFilePool, MaxIntentFiles) \cup SeqsUpTo(EntityFilePool, MaxEntityFiles)

InitNative ==
    \E files \in NativeInputs, loc \in Locales :
        /\ phase = "native"
        /\ locale = loc
        /\ model = EmptyJovoModel
        /\ original = EmptyJovoModel
        /\ returnFiles = <<>>
        /\ exportError = NoError
        /\ inputData = files
        /\ jovoModel = EmptyJovoModel
        /\ importRaised = FALSE

NextNative == ImportNative

SpecImport == InitNative /\ [][NextNative]_vars

-----------------------------------------------------------------------------
(* Views used to state the properties *)

EntitiesOrNone(intentData) == IF Has(intentData, "entities") THEN intentData.entities ELSE <<>>

EntityTypesOrNone(m) == IF Has(m, "entityTypes") THEN m.entityTypes ELSE <<>>

\* intents as a mapping from name to phrases and entities
IntentsView(m) ==
    [k \in Keys(m.intents) |->
        [phrases |-> PhrasesOf(Lookup(m.intents, k)),
         entities |-> AsFunction([i \in 1..Len(EntitiesOrNone(Lookup(m.intents, k))) |->
             Entry(EntitiesOrNone(Lookup(m.intents, k))[i].key,
                   RemoveField(EntitiesOrNone(Lookup(m.intents, k))[i].data, "dialogflow"))])]]

\* entity types as a mapping from name to values with their synonyms
EntityTypesView(m) ==
    [k \in Keys(EntityTypesOrNone(m)) |->
        IF Has(Lookup(EntityTypesOrNone(m), k), "values")
        THEN Lookup(EntityTypesOrNone(m), k).values ELSE <<>>]

\* a current-version model with no dialogflow sub-tree at model, intent, entity
\* or entity-type level; entity types are given as bare custom type names
PlainCanonical(m) ==
    /\ m.version = "4.0"
    /\ ~Has(m, "dialogflow")
    /\ \A i \in 1..Len(m.intents) :
          /\ ~Has(m.intents[i].data, "dialogflow")
          /\ \A j \in 1..Len(EntitiesOrNone(m.intents[i].data)) :
                LET e == EntitiesOrNone(m.intents[i].data)[j].data
                IN  /\ ~Has(e, "dialogflow")
                    /\ Has(e, "type") /\ Has(e.type, "string")
                    /\ ~StartsWith(e.type.string, BUILTIN_PREFIX)
    /\ \A i \in 1..Len(EntityTypesOrNone(m)) : ~Has(EntityTypesOrNone(m)[i].data, "dialogflow")

\* C1 (as claimed): for every current-version model without dialogflow
\* sub-trees, importing the exported files for the same locale returns a model
\* whose intents (phrases, entities) and entity types (values, synonyms) equal
\* the original's.
C1_RoundTripStable ==
    (phase \in {"imported", "importFailed"} /\ PlainCanonical(original))
        => /\ phase = "imported"
           /\ IntentsView(jovoModel) = IntentsView(original)
           /\ EntityTypesView(jovoModel) = EntityTypesView(original)

\* C2 (as claimed): an intent without dialogflow sub-tree, exported and imported
\* for the same locale, is an intent without dialogflow sub-tree.
C2_DefaultSuppression ==
    phase = "imported"
        => \A i \in 1..Len(original.intents) :
              ~Has(original.intents[i].data, "dialogflow")
                  => /\ HasKey(jovoModel.intents, original.intents[i].key)
                     /\ ~Has(Lookup(jovoModel.intents, original.intents[i].key), "dialogflow")

\* the primary intent files of a file set: not a <name>_usersays_<locale>.json
PrimaryIntentFiles(files) ==
    SelectSeq(FilesUnder(files, intentsDir),
              LAMBDA f : Len(f.path) >= 2 /\ IndexOf(f.path[2], UsersaysInfix) = -1)

\* names of the members of model.dialogflow.intents
RoutedNames(jm) ==
    IF Has(jm, "dialogflow") /\ Has(jm.dialogflow, "intents")
    THEN {jm.dialogflow.intents[i].name : i \in 1..Len(jm.dialogflow.intents)}
    ELSE {}

\* C3 (as claimed): after an import, every primary intent file that is a
\* fallback or a welcome intent is a member of model.dialogflow.intents, tagged
\* with its name, and is not a key of model.intents, whatever the file order.
C3_FallbackWelcomeRouted ==
    phase = "imported"
        => \A i \in 1..Len(PrimaryIntentFiles(inputData)) :
              LET dfi == PrimaryIntentFiles(inputData)[i].content
              IN  (IsFallbackIntent(dfi) \/ IsWelcomeIntent(dfi))
                      => /\ dfi.name \in RoutedNames(jovoModel)
                         /\ ~HasKey(jovoModel.intents, dfi.name)

\* the custom type name an entity refers to, <<>> when it refers to none
CustomTypeName(e) ==
    LET name == IF ~Has(e, "type") THEN <<>>
                ELSE IF Has(e.type, "string") THEN e.type.string
                ELSE IF Has(e.type, "dialogflow") THEN e.type.dialogflow
                ELSE <<>>
    IN  IF StartsWith(name, BUILTIN_PREFIX) THEN <<>> ELSE name

\* the built-in type string an entity refers to, <<>> when it refers to none
BuiltinTypeName(e) ==
    LET name == IF ~Has(e, "type") THEN <<>>
                ELSE IF Has(e.type, "string") THEN e.type.string
                ELSE IF Has(e.type, "dialogflow") THEN e.type.dialogflow
                ELSE <<>>
    IN  IF StartsWith(name, BUILTIN_PREFIX) THEN name ELSE <<>>

MaxEntitiesIn(m) ==
    IF Len(m.intents) = 0 THEN 0
    ELSE CHOOSE n \in {Len(EntitiesOrNone(m.intents[i].data)) : i \in 1..Len(m.intents)} :
            \A i \in 1..Len(m.intents) : Len(EntitiesOrNone(m.intents[i].data)) <= n

\* positions <<i, j>> of the entities of a model: intent i, entity j
EntitySlots(m) ==
    {s \in (1..Len(m.intents)) \X (1..MaxEntitiesIn(m)) :
        s[2] <= Len(EntitiesOrNone(m.intents[s[1]].data))}

EntityAt(m, s) == EntitiesOrNone(m.intents[s[1]].data)[s[2]]

\* entities whose custom type name is not a key of the model's entity types
UnresolvedSlots(m) ==
    {s \in EntitySlots(m) :
        /\ CustomTypeName(EntityAt(m, s).data) # <<>>
        /\ ~HasKey(EntityTypesOrNone(m), CustomTypeName(EntityAt(m, s).data))}

IsMissingDeclarationError(e) ==
    e.suffix \in {"must be defined in entityTypes", "must be defined in inputTypes"}

\* C4 (as claimed): an export that fails on an unresolved custom type returns no
\* file and its message names the offending intent or the offending entity.
C4_ErrorNamesIntentOrEntity ==
    (phase = "exportFailed" /\ IsMissingDeclarationError(exportError))
        => /\ returnFiles = <<>>
           /\ \E s \in UnresolvedSlots(original) :
                 \/ exportError.quoted = original.intents[s[1]].key
                 \/ exportError.quoted = EntityAt(original, s).key

\* C4 (amended): a model that holds an intent entity whose custom type name has
\* no entry in the entity types is never exported: the call raises and returns
\* no file, and a missing-declaration message names the unresolved type name.
C4_FailFastNamesType ==
    (phase \in {"exported", "exportFailed"} /\ UnresolvedSlots(original) # {})
        => /\ phase = "exportFailed"
           /\ returnFiles = <<>>
           /\ IsMissingDeclarationError(exportError)
                 => \E s \in UnresolvedSlots(original) :
                       exportError.quoted = CustomTypeName(EntityAt(original, s).data)

\* C4 witness: the export failed on an undeclared type met in the second intent,
\* after the first intent alone had produced files, and the message's quoted
\* name is neither an intent name nor an entity name.
C4_Witness ==
    /\ phase = "exportFailed"
    /\ exportError.prefix = "Entity type"
    /\ Len(original.intents) = 2
    /\ fromJovoModel([original EXCEPT !.intents = <<original.intents[1]>>], locale).files # <<>>
    /\ returnFiles = <<>>
    /\ \A s \in EntitySlots(original) :
          /\ exportError.quoted # original.intents[s[1]].key
          /\ exportError.quoted # EntityAt(original, s).key

\* C5 (as claimed): toJovoModel never raises.
C5_ImportNeverRaises == phase # "importFailed"

\* the parameters of the first returned file intents/<intentKey>.json
ExportedParameters(files, intentKey) ==
    LET hits == {i \in 1..Len(files) : files[i].path = <<intentsDir, intentKey \o DotJson>>}
    IN  IF hits = {} THEN <<>> ELSE ParametersOf(files[MinOf(hits)].content)

HasParameter(ps, name, dataType) ==
    \E i \in 1..Len(ps) : ps[i].name = name /\ ps[i].dataType = dataType

\* entities that refer to a built-in type
BuiltinSlots(m) == {s \in EntitySlots(m) : BuiltinTypeName(EntityAt(m, s).data) # <<>>}

\* entities that refer to a declared custom type
ResolvedSlots(m) ==
    {s \in EntitySlots(m) :
        /\ CustomTypeName(EntityAt(m, s).data) # <<>>
        /\ HasKey(EntityTypesOrNone(m), CustomTypeName(EntityAt(m, s).data))}

\* the dialogflow override of the entity replaces the parameter's name or dataType
OverridesParameter(e) ==
    Has(e, "dialogflow") /\ (Has(e.dialogflow, "name") \/ Has(e.dialogflow, "dataType"))

\* the intent's own dialogflow override carries a responses list
OverridesResponses(intentData) ==
    Has(intentData, "dialogflow") /\ Has(intentData.dialogflow, "responses")

\* the number of returned files under entities/
EntityFileCount(files) == Len(FilesUnder(files, entitiesDir))

\* the entity files owed to custom types and to records under model.dialogflow
ExpectedEntityFileCount(m) ==
    Cardinality(ResolvedSlots(m))
    + Cardinality({s \in ResolvedSlots(m) :
        HasValues(Lookup(m.entityTypes, CustomTypeName(EntityAt(m, s).data)))})
    + Len(VendorEntities(m))
    + Cardinality({i \in 1..Len(VendorEntities(m)) : Has(VendorEntities(m)[i], "entries")})

\* C6 (as claimed): every entity with a built-in type is exported as a parameter
\* whose dataType is exactly the built-in type string.
C6_BuiltinDataTypeExact ==
    phase = "exported"
        => \A s \in BuiltinSlots(original) :
              HasParameter(ExportedParameters(returnFiles, original.intents[s[1]].key),
                           EntityAt(original, s).key,
                           BuiltinTypeName(EntityAt(original, s).data))

\* C6 (amended): every entity with a built-in type, whose parameter is not
\* replaced by a dialogflow override, is exported as a parameter whose dataType
\* is exactly the built-in type string; a model whose entities all have built-in
\* types needs no entity types to be exported; and the files under entities/
\* are exactly those owed to custom types and to model.dialogflow.entities, none
\* to a built-in entity.
C6_BuiltinPassthrough ==
    /\ phase = "exported"
          => /\ \A s \in BuiltinSlots(original) :
                   (/\ ~OverridesParameter(EntityAt(original, s).data)
                    /\ ~OverridesResponses(original.intents[s[1]].data))
                       => HasParameter(
                              ExportedParameters(returnFiles, original.intents[s[1]].key),
                              EntityAt(original, s).key,
                              BuiltinTypeName(EntityAt(original, s).data))
             /\ EntityFileCount(returnFiles) = ExpectedEntityFileCount(original)
    /\ (phase # "model" /\ BuiltinSlots(original) = EntitySlots(original))
          => phase # "exportFailed"

\* C6 witness: a model with no entity types whose entities have built-in types,
\* one given as type.dialogflow and one as a bare string, was exported, and no
\* file under entities/ was returned.
C6_Witness ==
    /\ phase = "exported"
    /\ ~Has(original, "entityTypes")
    /\ \E s \in BuiltinSlots(original) : Has(EntityAt(original, s).data.type, "dialogflow")
    /\ \E s \in BuiltinSlots(original) : Has(EntityAt(original, s).data.type, "string")
    /\ \A s \in BuiltinSlots(original) : ~OverridesParameter(EntityAt(original, s).data)
    /\ EntityFileCount(returnFiles) = 0

\* the primary entity files of a file set that declare the type name
PrimaryEntityFilesOf(files, name) ==
    SelectSeq(FilesUnder(files, entitiesDir),
              LAMBDA f : /\ Len(f.path) >= 2
                         /\ IndexOf(f.path[2], entries) = -1
                         /\ f.content.name = name)

\* the file that decides the imported type: the last one assigned to its key
FlaggedEnumOrRegexp(files, name) ==
    LET fs == PrimaryEntityFilesOf(files, name)
        dfe == fs[Len(fs)].content
    IN  /\ Len(fs) > 0
        /\ \/ Has(dfe, "isEnum") /\ dfe.isEnum
           \/ Has(dfe, "isRegexp") /\ dfe.isRegexp

\* C8: in every model toJovoModel returns, no value's synonyms hold the value
\* itself, a synonyms list that is present is not empty, and the values of an
\* entity flagged isEnum or isRegexp have no synonyms.
C8_SynonymExclusion ==
    phase = "imported"
        => \A i \in 1..Len(jovoModel.entityTypes) :
              \A j \in 1..Len(jovoModel.entityTypes[i].data.values) :
                 LET v == jovoModel.entityTypes[i].data.values[j]
                 IN  /\ Has(v, "synonyms")
                        => /\ Len(v.synonyms) > 0
                           /\ \A k \in 1..Len(v.synonyms) : v.synonyms[k] # v.value
                     /\ FlaggedEnumOrRegexp(inputData, jovoModel.entityTypes[i].key)
                        => ~Has(v, "synonyms")

\* the entries companion the import read for a type
EntriesReadFor(files, name, loc) ==
    LET fs == FilesUnder(files, entitiesDir)
        found == FindFile(fs, name \o EntriesInfix \o loc \o DotJson)
    IN  IF found = 0 THEN <<>> ELSE fs[found].content

\* C8 witness: an import returned a type read from entries in which one value
\* had itself and another synonym (the other one is kept) and one value had
\* only itself (no synonyms field is left).
C8_Witness ==
    /\ phase = "imported"
    /\ HasKey(jovoModel.entityTypes, TypeT)
    /\ ~FlaggedEnumOrRegexp(inputData, TypeT)
    /\ EntriesReadFor(inputData, TypeT, locale) =
          <<[value |-> <<"v">>, synonyms |-> <<<<"v">>, <<"w">>>>],
            [value |-> <<"a">>, synonyms |-> <<<<"a">>>>]>>
    /\ Lookup(jovoModel.entityTypes, TypeT).values =
          <<[value |-> <<"v">>, synonyms |-> <<<<"w">>>>], [value |-> <<"a">>]>>

\* C9 (as claimed): after fromJovoModel returns or raises, the caller's model is
\* the model it passed, except for the deleted userSays and entries fields.
C9_ExportFrame ==
    phase \in {"exported", "exportFailed"}
        => ModelAfterVendor(model) = ModelAfterVendor(original)

\* C10 (as claimed): a missing-declaration error says inputTypes for a legacy
\* model and entityTypes for a current one.
C10_Terminology ==
    (phase = "exportFailed" /\ IsMissingDeclarationError(exportError))
        => IF original.version = "3.0"
           THEN exportError.suffix = "must be defined in inputTypes"
           ELSE exportError.suffix = "must be defined in entityTypes"

\* the names of the entities of intent i that have a declared custom type and
\* no dialogflow override of their parameter
PlaceholderNames(m, i) ==
    {EntityAt(m, s).key : s \in {r \in ResolvedSlots(m) :
        r[1] = i /\ ~OverridesParameter(EntityAt(m, r).data)}}

Marker(name) == <<"{">> \o name \o <<"}">>

\* the phrase is made of literal text (no braces) and {name} placeholders
RECURSIVE WellFormed(_, _)
WellFormed(p, names) ==
    \/ p = <<>>
    \/ p[1] \notin {"{", "}"} /\ WellFormed(Tail(p), names)
    \/ \E n \in names :
          /\ StartsWith(p, Marker(n))
          /\ WellFormed(SubSeq(p, Len(n) + 3, Len(p)), names)

\* the segments of a well-formed phrase: its literal texts and its placeholders
RECURSIVE ExpectedSegments(_, _, _)
ExpectedSegments(p, names, lit) ==
    LET flush == IF lit = <<>> THEN <<>> ELSE <<[text |-> lit]>>
    IN  IF p = <<>> THEN flush
        ELSE IF p[1] = "{"
        THEN LET n == CHOOSE n \in names : StartsWith(p, Marker(n))
             IN  flush \o <<[alias |-> n]>> \o
                 ExpectedSegments(SubSeq(p, Len(n) + 3, Len(p)), names, <<>>)
        ELSE ExpectedSegments(Tail(p), names, Append(lit, p[1]))

\* a usersays record reduced to literal texts and aliases
SegmentsOf(data) ==
    [i \in 1..Len(data) |->
        IF Has(data[i], "alias") THEN [alias |-> data[i].alias] ELSE [text |-> data[i].text]]

\* the content of the first returned file intents/<intentKey>_usersays_<locale>.json
ExportedUserSays(files, intentKey, loc) ==
    LET hits == {i \in 1..Len(files) : files[i].path = UsersaysFilePath(intentKey, loc)}
    IN  IF hits = {} THEN <<>> ELSE files[MinOf(hits)].content

PlaceholdersIn(p, names) == {n \in names : Occurrences(p, Marker(n)) # {}}

\* what the export owes for phrase k of intent i
PlaceholderExported(m, files, loc, i, k) ==
    LET key == m.intents[i].key
        p == m.intents[i].data.phrases[k]
        names == PlaceholderNames(m, i)
        us == ExportedUserSays(files, key, loc)
    IN  /\ \A n \in PlaceholdersIn(p, names) :
              HasParameter(ExportedParameters(files, key), n,
                           <<"@">> \o CustomTypeName(Lookup(m.intents[i].data.entities, n)))
        /\ Len(us) >= k
        /\ p # <<>> => SegmentsOf(us[k].data) = ExpectedSegments(p, names, <<>>)

\* what the import of the exported files owes for phrase k of intent i
PlaceholderImported(m, jm, i, k) ==
    LET key == m.intents[i].key
        p == m.intents[i].data.phrases[k]
        names == PlaceholderNames(m, i)
    IN  /\ HasKey(jm.intents, key)
        /\ Len(Lookup(jm.intents, key).phrases) >= k
        /\ Lookup(jm.intents, key).phrases[k] = p
        /\ \A n \in PlaceholdersIn(p, names) :
              /\ HasKey(EntitiesOrNone(Lookup(jm.intents, key)), n)
              /\ Lookup(Lookup(jm.intents, key).entities, n).type =
                    [string |-> CustomTypeName(Lookup(m.intents[i].data.entities, n))]

\* the phrases the claim is about: well formed, in an intent of the model
PlaceholderPhrases(m) ==
    {s \in (1..Len(m.intents)) \X (1..MaxPhraseLen + 1) :
        /\ s[2] <= Len(PhrasesOf(m.intents[s[1]].data))
        /\ ~OverridesResponses(m.intents[s[1]].data)
        /\ WellFormed(m.intents[s[1]].data.phrases[s[2]], PlaceholderNames(m, s[1]))}

\* C7 (as claimed): every phrase of literal text and placeholders of declared
\* custom-typed entities is exported as parameters with dataType @T and as the
\* segments of the phrase in order, and importing the exported files gives back
\* the identical phrase and the bare type name T.
C7_PlaceholderRoundTrip ==
    /\ phase \in {"exported", "imported", "importFailed"}
          => \A s \in PlaceholderPhrases(original) :
                PlaceholderExported(original, returnFiles, locale, s[1], s[2])
    /\ phase \in {"imported", "importFailed"}
          => /\ phase = "imported"
             /\ \A s \in PlaceholderPhrases(original) :
                   PlaceholderImported(original, jovoModel, s[1], s[2])

\* the same, for the intents whose name does not contain the text usersays
PlaceholderRoundTripOtherNames ==
    /\ phase \in {"exported", "imported", "importFailed"}
          => \A s \in PlaceholderPhrases(original) :
                PlaceholderExported(original, returnFiles, locale, s[1], s[2])
    /\ phase \in {"imported", "importFailed"}
          => /\ phase = "imported"
             /\ \A s \in PlaceholderPhrases(original) :
                   IndexOf(original.intents[s[1]].key, usersays) = -1
                       => PlaceholderImported(original, jovoModel, s[1], s[2])

\* the markers of a phrase, left to right: 0-based index and name of each
RECURSIVE MarkersFrom(_, _)
MarkersFrom(phrase, lastIndex) ==
    LET r == RegexExec(phrase, lastIndex)
    IN  IF ~r.found THEN <<>>
        ELSE <<[index |-> r.index, name |-> r.group]>> \o
             MarkersFrom(phrase, r.index + Len(r.group) + 2)

\* the literal text before marker i, or after the last marker when i = Len(ms) + 1
LiteralPiece(phrase, ms, i) ==
    LET from == IF i = 1 THEN 1 ELSE ms[i - 1].index + Len(ms[i - 1].name) + 3
        to == IF i > Len(ms) THEN Len(phrase) ELSE ms[i].index
    IN  SubSeq(phrase, from, to)

\* a usersays record reduced to what kind each segment is and what it holds
SegmentKinds(data) ==
    [i \in 1..Len(data) |->
        IF data[i].userDefined
        THEN [marker |-> IF Has(data[i], "alias") THEN data[i].alias ELSE data[i].text]
        ELSE [literal |-> data[i].text]]

\* the segments owed to a phrase, given which literal pieces are left out
SegmentsWhenSkipping(phrase, skipped(_, _)) ==
    LET ms == MarkersFrom(phrase, 0)
    IN  IF Len(ms) = 0 THEN <<[literal |-> phrase]>>
        ELSE Flatten([i \in 1..(Len(ms) + 1) |->
                (IF skipped(LiteralPiece(phrase, ms, i), i)
                 THEN <<>> ELSE <<[literal |-> LiteralPiece(phrase, ms, i)]>>) \o
                (IF i <= Len(ms) THEN <<[marker |-> ms[i].name]>> ELSE <<>>)])

\* the phrases of the exported model: intent i, phrase k
PhraseSlots(m) ==
    {s \in (1..Len(m.intents)) \X (1..MaxPhraseLen + 1) :
        s[2] <= Len(PhrasesOf(m.intents[s[1]].data))}

PhraseAt(m, s) == m.intents[s[1]].data.phrases[s[2]]

\* the exported segments of phrase k of intent i
ExportedKinds(m, files, loc, s) ==
    SegmentKinds(ExportedUserSays(files, m.intents[s[1]].key, loc)[s[2]].data)

IsCompanionSegment(segment, infix) ==
    \E loc \in Locales :
        LET suffix == infix \o loc \o DotJson
        IN  /\ Len(segment) > Len(suffix)
            /\ SubSeq(segment, Len(segment) - Len(suffix) + 1, Len(segment)) = suffix

\* the files of a directory that are not companion files
PrimaryFiles(files, dir, infix) ==
    SelectSeq(FilesUnder(files, dir),
              LAMBDA f : Len(f.path) >= 2 /\ ~IsCompanionSegment(f.path[2], infix))

\* primary intent files that are neither fallback nor welcome intents
OrdinaryIntentFiles(files) ==
    SelectSeq(PrimaryFiles(files, intentsDir, UsersaysInfix),
              LAMBDA f : ~IsFallbackIntent(f.content) /\ ~IsWelcomeIntent(f.content))

\* C12 (as claimed): every primary intent file that is neither fallback nor
\* welcome is a key of the imported intents, and every primary entity file is a
\* key of the imported entity types, whatever text their names contain.
C12_PrimaryFilesImported ==
    phase = "imported"
        => /\ \A i \in 1..Len(OrdinaryIntentFiles(inputData)) :
                 HasKey(jovoModel.intents, OrdinaryIntentFiles(inputData)[i].content.name)
           /\ \A i \in 1..Len(PrimaryFiles(inputData, entitiesDir, EntriesInfix)) :
                 HasKey(jovoModel.entityTypes,
                        PrimaryFiles(inputData, entitiesDir, EntriesInfix)[i].content.name)

\* the same, for the files whose second segment contains neither the text
\* usersays (intents) nor the text entries (entities)
PrimaryFilesImportedOtherNames ==
    phase = "imported"
        => /\ \A i \in 1..Len(OrdinaryIntentFiles(inputData)) :
                 IndexOf(OrdinaryIntentFiles(inputData)[i].path[2], usersays) = -1
                    => HasKey(jovoModel.intents,
                              OrdinaryIntentFiles(inputData)[i].content.name)
           /\ \A i \in 1..Len(PrimaryFiles(inputData, entitiesDir, EntriesInfix)) :
                 IndexOf(PrimaryFiles(inputData, entitiesDir, EntriesInfix)[i].path[2],
                         entries) = -1
                    => HasKey(jovoModel.entityTypes,
                              PrimaryFiles(inputData, entitiesDir, EntriesInfix)[i].content.name)

\* the number of returned files with the given path
FilesAt(files, path) == Cardinality({i \in 1..Len(files) : files[i].path = path})

\* the custom types that entities of the model refer to and the model declares
ReferencedTypes(m) == {CustomTypeName(EntityAt(m, s).data) : s \in ResolvedSlots(m)}

\* C13 (as claimed): for a model with no records under model.dialogflow, no two
\* returned files have the same path; a referenced custom type has exactly one
\* entities/<type>.json file and at most one entries file.
C13_UniquePaths ==
    (phase = "exported" /\ VendorIntents(original) = <<>> /\ VendorEntities(original) = <<>>)
        => /\ \A i, j \in 1..Len(returnFiles) :
                 returnFiles[i].path = returnFiles[j].path => i = j
           /\ \A t \in ReferencedTypes(original) :
                 /\ FilesAt(returnFiles, EntityFilePath(t)) = 1
                 /\ FilesAt(returnFiles, EntriesFilePath(t, locale)) <= 1

====
